---- MODULE Spec2Model ----
(***************************************************************************)
(* Model of the VRL stdlib pair from_entries / to_entries                  *)
(* (src/stdlib/from_entries.rs, src/stdlib/to_entries.rs).                 *)
(*                                                                         *)
(* A Value is a record with one field per payload so that values of        *)
(* different variants stay comparable.  A KeyString is a sequence of       *)
(* Unicode scalar values, a Bytes payload is a sequence of bytes, and an   *)
(* ObjectMap is the sequence of its (key, value) pairs in iteration order. *)
(***************************************************************************)
EXTENDS Integers, Sequences, FiniteSets, TLC

\* Bounds of the explored inputs.
MaxLen == 3
MaxFields == 2
MaxChain == 2

----------------------------------------------------------------------------
\* Value variants

Null == [tag |-> "Null", b |-> FALSE, n |-> 0, bytes |-> <<>>, items |-> <<>>, fields |-> <<>>]

Boolean(x) == [tag |-> "Boolean", b |-> x, n |-> 0, bytes |-> <<>>, items |-> <<>>, fields |-> <<>>]

Integer(i) == [tag |-> "Integer", b |-> FALSE, n |-> i, bytes |-> <<>>, items |-> <<>>, fields |-> <<>>]

Bytes(s) == [tag |-> "Bytes", b |-> FALSE, n |-> 0, bytes |-> s, items |-> <<>>, fields |-> <<>>]

Array(xs) == [tag |-> "Array", b |-> FALSE, n |-> 0, bytes |-> <<>>, items |-> xs, fields |-> <<>>]

Object(m) == [tag |-> "Object", b |-> FALSE, n |-> 0, bytes |-> <<>>, items |-> <<>>, fields |-> m]

\* Resolved = Result<Value, ExpressionError>
Ok(v) == [ok |-> TRUE, val |-> v, err |-> ""]

Err(msg) == [ok |-> FALSE, val |-> Null, err |-> msg]

----------------------------------------------------------------------------
\* UTF-8: KeyString -> bytes (Value::from(KeyString)) and bytes -> KeyString
\* (String::from_utf8_lossy).

REPLACEMENT_CHARACTER == 65533

\* Faulty variant of encode_utf8: scalar values below 256 written as one byte.
encode_utf8_latin1(c) ==
    IF c < 256 THEN <<c>>
    ELSE IF c < 2048 THEN <<192 + (c \div 64), 128 + (c % 64)>>
    ELSE IF c < 65536 THEN <<224 + (c \div 4096), 128 + ((c \div 64) % 64), 128 + (c % 64)>>
    ELSE <<240 + (c \div 262144), 128 + ((c \div 4096) % 64),
           128 + ((c \div 64) % 64), 128 + (c % 64)>>

encode_utf8(c) ==
    IF c < 128 THEN <<c>>
    ELSE IF c < 2048 THEN <<192 + (c \div 64), 128 + (c % 64)>>
    ELSE IF c < 65536 THEN <<224 + (c \div 4096), 128 + ((c \div 64) % 64), 128 + (c % 64)>>
    ELSE <<240 + (c \div 262144), 128 + ((c \div 4096) % 64),
           128 + ((c \div 64) % 64), 128 + (c % 64)>>

RECURSIVE as_bytes(_)
as_bytes(s) == IF s = <<>> THEN <<>> ELSE encode_utf8(Head(s)) \o as_bytes(Tail(s))

safe_get(s, i) == IF i <= Len(s) THEN s[i] ELSE 0

is_cont(x) == x \in 128..191

utf8_char_width(x) ==
    IF x < 128 THEN 1
    ELSE IF x \in 194..223 THEN 2
    ELSE IF x \in 224..239 THEN 3
    ELSE IF x \in 240..244 THEN 4
    ELSE 0

second_of_3(x, y) ==
    \/ x = 224 /\ y \in 160..191
    \/ x \in 225..236 /\ y \in 128..191
    \/ x = 237 /\ y \in 128..159
    \/ x \in 238..239 /\ y \in 128..191

second_of_4(x, y) ==
    \/ x = 240 /\ y \in 144..191
    \/ x \in 241..243 /\ y \in 128..191
    \/ x = 244 /\ y \in 128..143

\* The chunk starting at byte i: a valid scalar value, or a maximal invalid
\* prefix that is replaced by one U+FFFD.
utf8_chunk(s, i) ==
    LET x == s[i]
        w == utf8_char_width(x)
        y == safe_get(s, i + 1)
        z == safe_get(s, i + 2)
        u == safe_get(s, i + 3)
        bad(k) == [len |-> k, ch |-> REPLACEMENT_CHARACTER]
    IN  IF w = 1 THEN [len |-> 1, ch |-> x]
        ELSE IF w = 2 THEN
            IF is_cont(y) THEN [len |-> 2, ch |-> (x - 192) * 64 + (y - 128)]
            ELSE bad(1)
        ELSE IF w = 3 THEN
            IF ~second_of_3(x, y) THEN bad(1)
            ELSE IF ~is_cont(z) THEN bad(2)
            ELSE [len |-> 3, ch |-> (x - 224) * 4096 + (y - 128) * 64 + (z - 128)]
        ELSE IF w = 4 THEN
            IF ~second_of_4(x, y) THEN bad(1)
            ELSE IF ~is_cont(z) THEN bad(2)
            ELSE IF ~is_cont(u) THEN bad(3)
            ELSE [len |-> 4, ch |-> (x - 240) * 262144 + (y - 128) * 4096
                                     + (z - 128) * 64 + (u - 128)]
        ELSE bad(1)

RECURSIVE lossy_from(_, _)
lossy_from(s, i) ==
    IF i > Len(s) THEN <<>>
    ELSE LET c == utf8_chunk(s, i) IN <<c.ch>> \o lossy_from(s, i + c.len)

from_utf8_lossy(s) == lossy_from(s, 1)

----------------------------------------------------------------------------
\* ObjectMap: pairs <<key, value>> kept in ascending key order, keys unique.

RECURSIVE key_less(_, _)
key_less(a, b) ==
    IF b = <<>> THEN FALSE
    ELSE IF a = <<>> THEN TRUE
    ELSE IF Head(a) # Head(b) THEN Head(a) < Head(b)
    ELSE key_less(Tail(a), Tail(b))

ObjectMap_new == <<>>

\* Faulty variant of ObjectMap_insert: an existing key keeps its value.
RECURSIVE ObjectMap_insert_keep(_, _, _)
ObjectMap_insert_keep(m, k, v) ==
    IF m = <<>> THEN << <<k, v>> >>
    ELSE IF Head(m)[1] = k THEN m
    ELSE IF key_less(k, Head(m)[1]) THEN << <<k, v>> >> \o m
    ELSE <<Head(m)>> \o ObjectMap_insert_keep(Tail(m), k, v)

RECURSIVE ObjectMap_insert(_, _, _)
ObjectMap_insert(m, k, v) ==
    IF m = <<>> THEN << <<k, v>> >>
    ELSE IF Head(m)[1] = k THEN << <<k, v>> >> \o Tail(m)
    ELSE IF key_less(k, Head(m)[1]) THEN << <<k, v>> >> \o m
    ELSE <<Head(m)>> \o ObjectMap_insert(Tail(m), k, v)

RECURSIVE ObjectMap_from(_)
ObjectMap_from(pairs) ==
    IF pairs = <<>> THEN ObjectMap_new
    ELSE LET n == Len(pairs)
         IN  ObjectMap_insert(ObjectMap_from(SubSeq(pairs, 1, n - 1)), pairs[n][1], pairs[n][2])

contains_key(m, k) == \E i \in 1..Len(m) : m[i][1] = k

get(m, k) == m[CHOOSE i \in 1..Len(m) : m[i][1] = k][2]

\* entry.remove(k).unwrap_or(Value::Null)
remove_or_null(m, k) == IF contains_key(m, k) THEN get(m, k) ELSE Null

----------------------------------------------------------------------------
\* Value accessors (crate::value): kind name and typed accessors.

kind_str(v) ==
    CASE v.tag = "Null" -> "null"
      [] v.tag = "Boolean" -> "boolean"
      [] v.tag = "Integer" -> "integer"
      [] v.tag = "Bytes" -> "string"
      [] v.tag = "Array" -> "array"
      [] v.tag = "Object" -> "object"

try_array(v) == IF v.tag = "Array" THEN Ok(v) ELSE Err("expected array, got " \o kind_str(v))

try_object(v) == IF v.tag = "Object" THEN Ok(v) ELSE Err("expected object, got " \o kind_str(v))

----------------------------------------------------------------------------
\* from_entries.rs

KEY == <<107, 101, 121>>

VALUE == <<118, 97, 108, 117, 101>>

\* Faulty variant of make_key_string: a missing or null key becomes "".
make_key_string_null(key) ==
    IF key.tag = "Bytes" THEN [ok |-> TRUE, key |-> from_utf8_lossy(key.bytes), err |-> ""]
    ELSE IF key.tag = "Null" THEN [ok |-> TRUE, key |-> <<>>, err |-> ""]
    ELSE [ok |-> FALSE, key |-> <<>>, err |-> "object keys must be strings"]

make_key_string(key) ==
    IF key.tag = "Bytes" THEN [ok |-> TRUE, key |-> from_utf8_lossy(key.bytes), err |-> ""]
    ELSE [ok |-> FALSE, key |-> <<>>, err |-> "object keys must be strings"]

\* Faulty variant of from_entries_loop: elements that are not objects are skipped.
RECURSIVE from_entries_loop_skip(_, _, _)
from_entries_loop_skip(array, i, object) ==
    IF i > Len(array) THEN Ok(Object(object))
    ELSE LET e == try_object(array[i])
         IN  IF ~e.ok THEN from_entries_loop_skip(array, i + 1, object)
             ELSE LET entry == e.val.fields
                      key == remove_or_null(entry, KEY)
                      value == remove_or_null(entry, VALUE)
                      k == make_key_string(key)
                  IN  IF ~k.ok THEN Err(k.err)
                      ELSE from_entries_loop_skip(array, i + 1,
                                                  ObjectMap_insert(object, k.key, value))

\* Faulty variant of from_entries_loop: an entry without a "value" field is
\* not inserted.
RECURSIVE from_entries_loop_novalue(_, _, _)
from_entries_loop_novalue(array, i, object) ==
    IF i > Len(array) THEN Ok(Object(object))
    ELSE LET e == try_object(array[i])
         IN  IF ~e.ok THEN e
             ELSE LET entry == e.val.fields
                      key == remove_or_null(entry, KEY)
                      value == remove_or_null(entry, VALUE)
                      k == make_key_string(key)
                  IN  IF ~k.ok THEN Err(k.err)
                      ELSE IF ~contains_key(entry, VALUE)
                      THEN from_entries_loop_novalue(array, i + 1, object)
                      ELSE from_entries_loop_novalue(array, i + 1,
                                                     ObjectMap_insert(object, k.key, value))

\* Faulty variant of from_entries_loop: every element is checked to be an
\* object before any key is looked at.
RECURSIVE from_entries_loop_twopass(_, _, _)
from_entries_loop_twopass(array, i, object) ==
    IF \E j \in i..Len(array) : array[j].tag # "Object"
    THEN try_object(array[CHOOSE j \in i..Len(array) :
                              /\ array[j].tag # "Object"
                              /\ \A h \in i..(j - 1) : array[h].tag = "Object"])
    ELSE IF i > Len(array) THEN Ok(Object(object))
    ELSE LET entry == array[i].fields
             key == remove_or_null(entry, KEY)
             value == remove_or_null(entry, VALUE)
             k == make_key_string(key)
         IN  IF ~k.ok THEN Err(k.err)
             ELSE from_entries_loop_twopass(array, i + 1,
                                            ObjectMap_insert(object, k.key, value))

\* Faulty variant of from_entries_loop: an entry with a field besides "key"
\* and "value" is rejected.
RECURSIVE from_entries_loop_strict(_, _, _)
from_entries_loop_strict(array, i, object) ==
    IF i > Len(array) THEN Ok(Object(object))
    ELSE LET e == try_object(array[i])
         IN  IF ~e.ok THEN e
             ELSE LET entry == e.val.fields
                      key == remove_or_null(entry, KEY)
                      value == remove_or_null(entry, VALUE)
                      k == make_key_string(key)
                  IN  IF ~k.ok THEN Err(k.err)
                      ELSE IF \E j \in 1..Len(entry) : entry[j][1] \notin {KEY, VALUE}
                      THEN Err("unexpected field in entry")
                      ELSE from_entries_loop_strict(array, i + 1,
                                                    ObjectMap_insert(object, k.key, value))

\* One pass of the loop body for array[i], with the object built so far.
RECURSIVE from_entries_loop(_, _, _)
from_entries_loop(array, i, object) ==
    IF i > Len(array) THEN Ok(Object(object))
    ELSE LET e == try_object(array[i])
         IN  IF ~e.ok THEN e
             ELSE LET entry == e.val.fields
                      key == remove_or_null(entry, KEY)
                      value == remove_or_null(entry, VALUE)
                      k == make_key_string(key)
                  IN  IF ~k.ok THEN Err(k.err)
                      ELSE from_entries_loop(array, i + 1, ObjectMap_insert(object, k.key, value))

\* Faulty variant of from_entries: an object argument is taken as one entry.
from_entries_wrap(value) ==
    LET array == try_array(IF value.tag = "Object" THEN Array(<<value>>) ELSE value)
    IN  IF ~array.ok THEN array
        ELSE from_entries_loop(array.val.items, 1, ObjectMap_new)

from_entries(value) ==
    LET array == try_array(value)
    IN  IF ~array.ok THEN array
        ELSE from_entries_loop(array.val.items, 1, ObjectMap_new)

----------------------------------------------------------------------------
\* to_entries.rs

build_entry(pair) ==
    Object(ObjectMap_from(<< <<KEY, Bytes(as_bytes(pair[1]))>>, <<VALUE, pair[2]>> >>))

\* Faulty variant of to_entries: the pairs are emitted in reverse order.
to_entries_rev(value) ==
    LET object == try_object(value)
    IN  IF ~object.ok THEN object
        ELSE LET n == Len(object.val.fields)
             IN  Ok(Array([i \in 1..n |-> build_entry(object.val.fields[n + 1 - i])]))

\* Faulty variant of to_entries: an array argument is returned as it is.
to_entries_pass(value) ==
    LET object == try_object(value)
    IN  IF value.tag = "Array" THEN Ok(value)
        ELSE IF ~object.ok THEN object
        ELSE Ok(Array([i \in 1..Len(object.val.fields) |-> build_entry(object.val.fields[i])]))

to_entries(value) ==
    LET object == try_object(value)
    IN  IF ~object.ok THEN object
        ELSE Ok(Array([i \in 1..Len(object.val.fields) |-> build_entry(object.val.fields[i])]))

----------------------------------------------------------------------------
\* Inputs

EXTRA == <<101, 120, 116, 114, 97>>

Scalars == {Null, Boolean(TRUE), Integer(1), Bytes(<<97>>)}

KeyStrings == {<<97>>, <<233>>, <<65533>>, KEY, VALUE}

FieldValues ==
    {Null, Integer(1), Bytes(<<255>>),
     Object(ObjectMap_from(<< <<(<<97>>), Array(<<Boolean(TRUE)>>)>> >>))}

RECURSIVE ObjectMaps(_)
ObjectMaps(n) ==
    IF n = 0 THEN {ObjectMap_new}
    ELSE LET s == ObjectMaps(n - 1)
         IN  s \cup {ObjectMap_insert(m, k, v) : m \in s, k \in KeyStrings, v \in FieldValues}

Entry(pairs) == Object(ObjectMap_from(pairs))

Elements ==
    {Boolean(TRUE),
     Bytes(<<97>>),
     Entry(<< <<KEY, Bytes(<<97>>)>>, <<VALUE, Integer(1)>> >>),
     Entry(<< <<KEY, Bytes(<<97>>)>>, <<VALUE, Integer(2)>>, <<EXTRA, Boolean(TRUE)>> >>),
     Entry(<< <<KEY, Bytes(<<97>>)>> >>),
     Entry(<< <<KEY, Bytes(<<255>>)>>, <<VALUE, Integer(1)>> >>),
     Entry(<< <<KEY, Bytes(<<239, 191, 189>>)>>, <<VALUE, Integer(2)>> >>),
     Entry(<< <<VALUE, Integer(1)>> >>),
     Entry(<< <<KEY, Integer(1)>>, <<VALUE, Bytes(<<98, 97, 114>>)>> >>),
     Entry(<< <<KEY, Null>>, <<EXTRA, Bytes(<<97>>)>> >>),
     Entry(<< <<KEY, Array(<<Bytes(<<97>>)>>)>>, <<VALUE, Null>> >>),
     Entry(<< <<KEY, Bytes(<<195, 169>>)>>, <<VALUE, Bytes(<<255>>)>> >>),
     Entry(<< <<KEY, Bytes(<<195>>)>>, <<VALUE, Array(<<Null>>)>> >>),
     Null}

RECURSIVE Arrays(_)
Arrays(n) ==
    IF n = 0 THEN {<<>>}
    ELSE LET s == Arrays(n - 1)
         IN  s \cup {Append(a, e) : a \in s, e \in Elements}

Inputs ==
    Scalars \cup {Array(a) : a \in Arrays(MaxLen)} \cup {Object(m) : m \in ObjectMaps(MaxFields)}

----------------------------------------------------------------------------
\* Evaluation of a nest of calls f_n(...f_1(input)...), innermost first.

VARIABLES input, chain, arg, resolved

vars == <<input, chain, arg, resolved>>

Init ==
    /\ input \in Inputs
    /\ chain = <<>>
    /\ arg = Ok(input)
    /\ resolved = Ok(input)

FromEntriesFn_resolve ==
    /\ Len(chain) < MaxChain
    /\ chain' = Append(chain, "from_entries")
    /\ arg' = resolved
    /\ resolved' = IF resolved.ok THEN from_entries(resolved.val) ELSE resolved
    /\ UNCHANGED input

ToEntriesFn_resolve ==
    /\ Len(chain) < MaxChain
    /\ chain' = Append(chain, "to_entries")
    /\ arg' = resolved
    /\ resolved' = IF resolved.ok THEN to_entries(resolved.val) ELSE resolved
    /\ UNCHANGED input

Next == FromEntriesFn_resolve \/ ToEntriesFn_resolve

Spec == Init /\ [][Next]_vars

----------------------------------------------------------------------------
\* Vocabulary of the properties

Last(s) == s[Len(s)]

Keys(m) == {m[i][1] : i \in 1..Len(m)}

Max(S) == CHOOSE i \in S : \A j \in S : j <= i

Min(S) == CHOOSE i \in S : \A j \in S : i <= j

HasField(e, k) == \E i \in 1..Len(e.fields) : e.fields[i][1] = k

Field(e, k) == e.fields[CHOOSE i \in 1..Len(e.fields) : e.fields[i][1] = k][2]

\* An Object element whose "key" field is a ByteString.
ValidEntry(e) == e.tag = "Object" /\ HasField(e, KEY) /\ Field(e, KEY).tag = "Bytes"

\* An Object element whose "key" field is absent or not a ByteString.
BadKeyEntry(e) == e.tag = "Object" /\ ~ValidEntry(e)

EntryValue(e) == IF HasField(e, VALUE) THEN Field(e, VALUE) ELSE Null

\* The state after the single call from_entries(input) on an array input.
FromEntriesOfArray == chain = <<"from_entries">> /\ input.tag = "Array"

AllValid(items) == \A i \in 1..Len(items) : ValidEntry(items[i])

TypeOK ==
    /\ resolved.ok \/ resolved.err # ""
    /\ Len(chain) <= MaxChain

----------------------------------------------------------------------------
\* C1: for every Object O (keys distinct), from_entries(to_entries(O))
\* succeeds and equals O.
C1_RoundTrip ==
    (chain = <<"to_entries", "from_entries">> /\ input.tag = "Object")
        => resolved = Ok(input)

C1_Witness ==
    /\ chain = <<"to_entries", "from_entries">>
    /\ input.tag = "Object"
    /\ Len(input.fields) = 2
    /\ <<233>> \in Keys(input.fields)
    /\ resolved = Ok(input)

\* C2 as stated: on an array of entries with ByteString keys from_entries
\* succeeds, the result's keys are exactly the keys occurring in the array,
\* and each key maps to the value of the last entry carrying that key.
C2_Original ==
    (FromEntriesOfArray /\ AllValid(input.items)) =>
        /\ resolved.ok
        /\ resolved.val.tag = "Object"
        /\ LET items == input.items
               out == resolved.val.fields
           IN  /\ {as_bytes(k) : k \in Keys(out)}
                      = {Field(items[i], KEY).bytes : i \in 1..Len(items)}
               /\ \A p \in 1..Len(out) :
                      LET same == {i \in 1..Len(items) :
                                       Field(items[i], KEY).bytes = as_bytes(out[p][1])}
                      IN  same # {} /\ out[p][2] = EntryValue(items[Max(same)])

\* C2 amended: on an array of entries with ByteString keys from_entries
\* succeeds, the result's keys are exactly the lossy UTF-8 decodings of the
\* keys occurring in the array, all distinct, and each key maps to the value
\* of the last entry whose key decodes to it.
C2_LastWins ==
    (FromEntriesOfArray /\ AllValid(input.items)) =>
        /\ resolved.ok
        /\ resolved.val.tag = "Object"
        /\ LET items == input.items
               out == resolved.val.fields
               dec(i) == from_utf8_lossy(Field(items[i], KEY).bytes)
           IN  /\ Keys(out) = {dec(i) : i \in 1..Len(items)}
               /\ Cardinality(Keys(out)) = Len(out)
               /\ \A p \in 1..Len(out) :
                      LET same == {i \in 1..Len(items) : dec(i) = out[p][1]}
                      IN  out[p][2] = EntryValue(items[Max(same)])

C2_Witness ==
    /\ FromEntriesOfArray
    /\ Len(input.items) = 3
    /\ AllValid(input.items)
    /\ Field(input.items[1], KEY) = Field(input.items[3], KEY)
    /\ EntryValue(input.items[1]) # EntryValue(input.items[3])
    /\ Field(input.items[2], KEY) = Bytes(<<255>>)
    /\ Len(resolved.val.fields) = 2

\* C3: from_entries fails with "object keys must be strings" when the first
\* element that is not a valid entry is an Object whose "key" field is absent
\* or not a ByteString, whatever its "value" field is.
C3_KeyNotString ==
    FromEntriesOfArray =>
        \A i \in 1..Len(input.items) :
            (AllValid(SubSeq(input.items, 1, i - 1)) /\ BadKeyEntry(input.items[i]))
                => resolved = Err("object keys must be strings")

C3_Witness ==
    /\ FromEntriesOfArray
    /\ Len(input.items) = 3
    /\ ValidEntry(input.items[1])
    /\ BadKeyEntry(input.items[2])
    /\ HasField(input.items[2], KEY)
    /\ Field(input.items[2], KEY).tag = "Integer"
    /\ ~HasField(input.items[3], KEY)
    /\ resolved = Err("object keys must be strings")

\* C4: from_entries fails with "expected object, got <kind>" when the first
\* element that is not a valid entry is not an Object, <kind> being the kind
\* of that element.
C4_EntryNotObject ==
    FromEntriesOfArray =>
        \A i \in 1..Len(input.items) :
            (AllValid(SubSeq(input.items, 1, i - 1)) /\ input.items[i].tag # "Object")
                => /\ ~resolved.ok
                   /\ input.items[i].tag = "Boolean" => resolved.err = "expected object, got boolean"
                   /\ resolved.err = "expected object, got " \o kind_str(input.items[i])

C4_Witness ==
    /\ FromEntriesOfArray
    /\ Len(input.items) = 2
    /\ ValidEntry(input.items[1])
    /\ input.items[2] = Boolean(TRUE)
    /\ resolved = Err("expected object, got boolean")

\* C5: from_entries of a top-level value that is not an Array fails with
\* "expected array, got <kind>"; from_entries of the empty array is the empty
\* object.
C5_NonArray ==
    chain = <<"from_entries">> =>
        /\ input.tag # "Array" =>
               /\ ~resolved.ok
               /\ resolved.err = "expected array, got " \o kind_str(input)
               /\ input.tag = "Boolean" => resolved.err = "expected array, got boolean"
               /\ input.tag = "Object" => resolved.err = "expected array, got object"
        /\ input = Array(<<>>) => resolved = Ok(Object(<<>>))

C5_Witness ==
    /\ chain = <<"from_entries">>
    /\ input.tag = "Object"
    /\ Keys(input.fields) = {KEY, VALUE}
    /\ Field(input, KEY).tag = "Bytes"
    /\ resolved = Err("expected array, got object")

\* C6: to_entries of an Object is an Array with one element per key, the
\* i-th element being the Object with exactly the fields "key" (the i-th key
\* of the map, as a ByteString) and "value" (the i-th value, unchanged).
C6_ToEntries ==
    (chain = <<"to_entries">> /\ input.tag = "Object") =>
        /\ resolved.ok
        /\ resolved.val.tag = "Array"
        /\ Len(resolved.val.items) = Cardinality(Keys(input.fields))
        /\ \A i \in 1..Len(resolved.val.items) :
               LET e == resolved.val.items[i]
               IN  /\ e.tag = "Object"
                   /\ Keys(e.fields) = {KEY, VALUE}
                   /\ Len(e.fields) = 2
                   /\ Field(e, KEY) = Bytes(as_bytes(input.fields[i][1]))
                   /\ Field(e, VALUE) = input.fields[i][2]
        /\ input = Object(<<>>) => resolved = Ok(Array(<<>>))

C6_Witness ==
    /\ chain = <<"to_entries">>
    /\ input.tag = "Object"
    /\ Len(input.fields) = 2
    /\ input.fields[2][2].tag = "Object"
    /\ resolved.ok
    /\ Len(resolved.val.items) = 2
    /\ Field(resolved.val.items[2], VALUE) = input.fields[2][2]

\* C7: to_entries succeeds exactly when its argument is an Object, and on
\* any other argument fails with "expected object, got <kind>".
C7_ToEntriesTotal ==
    (chain # <<>> /\ Last(chain) = "to_entries" /\ arg.ok) =>
        /\ resolved.ok <=> arg.val.tag = "Object"
        /\ ~resolved.ok => resolved.err = "expected object, got " \o kind_str(arg.val)
        /\ arg.val.tag = "Boolean" => resolved.err = "expected object, got boolean"
        /\ arg.val.tag = "Array" => resolved.err = "expected object, got array"

C7_Witness ==
    /\ chain = <<"to_entries">>
    /\ input.tag = "Array"
    /\ Len(input.items) > 0
    /\ resolved = Err("expected object, got array")

\* The array with "value": null added to every valid entry that has no
\* "value" field.
FillNull(items) ==
    [i \in 1..Len(items) |->
        IF ValidEntry(items[i]) /\ ~HasField(items[i], VALUE)
        THEN Object(ObjectMap_insert(items[i].fields, VALUE, Null))
        ELSE items[i]]

\* C8: an entry with a ByteString "key" and no "value" field does not make
\* from_entries fail; it is treated exactly as if it carried "value": null.
C8_MissingValue ==
    FromEntriesOfArray =>
        /\ resolved = from_entries(Array(FillNull(input.items)))
        /\ AllValid(input.items) => resolved.ok
        /\ (AllValid(input.items) /\ input.items # <<>>
              /\ ~HasField(Last(input.items), VALUE)) =>
               \E p \in 1..Len(resolved.val.fields) :
                   /\ resolved.val.fields[p][1]
                          = from_utf8_lossy(Field(Last(input.items), KEY).bytes)
                   /\ resolved.val.fields[p][2] = Null

C8_Witness ==
    /\ FromEntriesOfArray
    /\ Len(input.items) = 2
    /\ AllValid(input.items)
    /\ HasField(input.items[1], VALUE)
    /\ Field(input.items[1], KEY) = Field(input.items[2], KEY)
    /\ ~HasField(input.items[2], VALUE)
    /\ resolved = Ok(Object(<< <<(<<97>>), Null>> >>))

\* The error an element that is not a valid entry raises.
ElementError(e) ==
    IF e.tag # "Object" THEN Err("expected object, got " \o kind_str(e))
    ELSE Err("object keys must be strings")

\* C9: from_entries fails iff some element is invalid, then returns no
\* object, and the error is that of the lowest-index invalid element,
\* whatever precedes or follows it.
C9_FirstFailure ==
    FromEntriesOfArray =>
        LET bad == {i \in 1..Len(input.items) : ~ValidEntry(input.items[i])}
        IN  /\ resolved.ok <=> bad = {}
            /\ bad # {} => resolved = ElementError(input.items[Min(bad)])

C9_Witness ==
    /\ FromEntriesOfArray
    /\ Len(input.items) = 3
    /\ ValidEntry(input.items[1])
    /\ BadKeyEntry(input.items[2])
    /\ input.items[3].tag # "Object"
    /\ resolved = Err("object keys must be strings")

\* The array with every field other than "key" and "value" dropped from its
\* Object elements.
RECURSIVE KeepKeyValue(_)
KeepKeyValue(m) ==
    IF m = <<>> THEN <<>>
    ELSE IF Head(m)[1] \in {KEY, VALUE} THEN <<Head(m)>> \o KeepKeyValue(Tail(m))
    ELSE KeepKeyValue(Tail(m))

StripExtras(items) ==
    [i \in 1..Len(items) |->
        IF items[i].tag = "Object" THEN Object(KeepKeyValue(items[i].fields)) ELSE items[i]]

\* C10: the outcome of from_entries is the outcome on the input with all
\* fields other than "key" and "value" dropped from its entries, and no
\* such field's name or value shows in the result.
C10_ExtraFieldsIgnored ==
    FromEntriesOfArray =>
        /\ resolved = from_entries(Array(StripExtras(input.items)))
        /\ resolved.ok =>
               \A p \in 1..Len(resolved.val.fields) :
                   \E i \in 1..Len(input.items) :
                       /\ ValidEntry(input.items[i])
                       /\ resolved.val.fields[p][1]
                              = from_utf8_lossy(Field(input.items[i], KEY).bytes)
                       /\ resolved.val.fields[p][2] = EntryValue(input.items[i])

C10_Witness ==
    /\ FromEntriesOfArray
    /\ Len(input.items) = 2
    /\ HasField(input.items[2], EXTRA)
    /\ StripExtras(input.items) # input.items
    /\ resolved = Ok(Object(<< <<(<<97>>), Integer(2)>> >>))

====
